---- MODULE Spec2Model ----
(***************************************************************************)
(* Streaming technical-analysis indicators of the technical_analysis       *)
(* crate: SimpleMovingAverage, RollingMovingAverage (Wilder smoothing),    *)
(* TrueRange, AverageTrueRange and DirectionalMovementIndex.               *)
(*                                                                         *)
(* A behaviour is one client program: it constructs one indicator with     *)
(* new(period) and then calls next(input) and reset() on it in any order.  *)
(***************************************************************************)
EXTENDS Integers, Sequences, FiniteSets, TLC

\* ------------------------------------------------------------------------
\* Bounds of the model
\* ------------------------------------------------------------------------
\* periods tried by new(): 0 .. MaxPeriod
MaxPeriod == 3
\* scalar samples fed to SMA / RMA: 0 .. MaxVal
MaxVal == 2
\* bar prices (high, low, close): 0 .. MaxPrice
MaxPrice == 1
\* next() calls made on one indicator
MaxCalls == 5
\* next() calls made on a DirectionalMovementIndex fed the wider bars
MaxWideCalls == 2
\* lookback periods tried by PivotPoints::new: 0 .. MaxLookback
MaxLookback == 2
\* pivot history sizes tried by PivotPoints::new: 0 .. MaxPivots
MaxPivots == 2
\* prices of the bars fed to PivotPoints: 0 .. MaxPivotPrice
MaxPivotPrice == 2
\* next() calls made on one PivotPoints
MaxPivotCalls == 5

\* ------------------------------------------------------------------------
\* rust_decimal::Decimal
\* A Decimal is a scaled integer.  The library keeps up to 28 fraction
\* digits; the model keeps two of them, so a value v is the integer
\* v * Scale.  Sums, differences and products with an integer are exact,
\* a quotient is rounded half-to-even in its last kept digit, and a zero
\* divisor panics (DivPanics).
\* ------------------------------------------------------------------------
Scale == 100

Dec(n) == n * Scale

Abs(a) == IF a < 0 THEN -a ELSE a

RoundDiv(n, d) ==
    LET q == n \div d
        r == n % d
    IN  IF 2 * r > d \/ (2 * r = d /\ q % 2 = 1) THEN q + 1 ELSE q

DivPanics(a, b) == b = 0

DecDiv(a, b) ==
    LET m == RoundDiv(Abs(a) * Scale, Abs(b))
    IN  IF (a < 0) = (b < 0) THEN m ELSE -m

DecMul(a, b) ==
    LET m == RoundDiv(Abs(a) * Abs(b), Scale)
    IN  IF (a < 0) = (b < 0) THEN m ELSE -m

\* Option<Decimal>
None == <<>>
Some(v) == <<v>>
IsSome(o) == o # <<>>
Unwrap(o) == o[1]

\* ta::errors::Result
Err(e) == [tag |-> "Err", err |-> e]
Ok(v) == [tag |-> "Ok", val |-> v]

\* ------------------------------------------------------------------------
\* SimpleMovingAverage
\* ------------------------------------------------------------------------
\* Mutant of SMA_new: the period is not validated.
SMA_new_unchecked(period) ==
    Ok([period |-> period,
        index  |-> 0,
        count  |-> 0,
        sum    |-> Dec(0),
        deque  |-> [i \in 1..period |-> Dec(0)]])

SMA_new(period) ==
    IF period = 0
    THEN Err("InvalidParameter")
    ELSE Ok([period |-> period,
             index  |-> 0,
             count  |-> 0,
             sum    |-> Dec(0),
             deque  |-> [i \in 1..period |-> Dec(0)]])

\* Mutant of SMA_next: the average is taken over all period slots, the
\* unfilled ones counting as zero.
SMA_next_zero_padded(self, input) ==
    LET old_val == self.deque[self.index + 1]
        deque   == [self.deque EXCEPT ![self.index + 1] = input]
        index   == IF self.index + 1 < self.period THEN self.index + 1 ELSE 0
        count   == IF self.count < self.period THEN self.count + 1 ELSE self.count
        sum     == self.sum - old_val + input
    IN  [self |-> [period |-> self.period, index |-> index, count |-> count,
                   sum |-> sum, deque |-> deque],
         out  |-> DecDiv(sum, Dec(self.period))]

\* next(input): the new state and the returned average
SMA_next(self, input) ==
    LET old_val == self.deque[self.index + 1]
        deque   == [self.deque EXCEPT ![self.index + 1] = input]
        index   == IF self.index + 1 < self.period THEN self.index + 1 ELSE 0
        count   == IF self.count < self.period THEN self.count + 1 ELSE self.count
        sum     == self.sum - old_val + input
    IN  [self |-> [period |-> self.period, index |-> index, count |-> count,
                   sum |-> sum, deque |-> deque],
         out  |-> DecDiv(sum, Dec(count))]

\* Mutant of SMA_reset: the running sum survives the reset.
SMA_reset_keeps_sum(self) ==
    [self EXCEPT !.index = 0,
                 !.count = 0,
                 !.deque = [i \in 1..self.period |-> Dec(0)]]

SMA_reset(self) ==
    [self EXCEPT !.index = 0,
                 !.count = 0,
                 !.sum   = Dec(0),
                 !.deque = [i \in 1..self.period |-> Dec(0)]]

\* ------------------------------------------------------------------------
\* RollingMovingAverage (Wilder smoothing)
\* ------------------------------------------------------------------------
RMA_new(period) ==
    IF period = 0
    THEN Err("InvalidParameter")
    ELSE LET sma == SMA_new(period)
         IN  IF sma.tag = "Err"
             THEN sma
             ELSE Ok([period      |-> period,
                      opt_current |-> None,
                      sma         |-> sma.val,
                      no_invokes  |-> 0])

\* Mutant of RMA_warm_up: the running value is seeded one call early.
RMA_warm_up_early(self, s) ==
    IF self.no_invokes + 1 < self.period - 1
    THEN [self EXCEPT !.no_invokes = @ + 1, !.sma = s.self]
    ELSE [self EXCEPT !.no_invokes = @ + 1, !.sma = s.self,
                      !.opt_current = Some(s.out)]

\* Mutant of RMA_warm_up: the running value is never seeded.
RMA_warm_up_never_seeds(self, s) ==
    IF self.no_invokes < self.period
    THEN [self EXCEPT !.no_invokes = @ + 1, !.sma = s.self]
    ELSE [self EXCEPT !.no_invokes = @ + 1, !.sma = s.self,
                      !.opt_current = Some(s.out)]

\* The warm-up branches of next: the inner SMA has taken the input (s).
RMA_warm_up(self, s) ==
    IF self.no_invokes < self.period - 1
    THEN [self EXCEPT !.no_invokes = @ + 1, !.sma = s.self]
    ELSE [self EXCEPT !.no_invokes = @ + 1, !.sma = s.self,
                      !.opt_current = Some(s.out)]

\* Mutant of RMA_smooth: the weights of the running value and of the input
\* are swapped.
RMA_smooth_swapped(self, input) ==
    [self EXCEPT !.opt_current =
        IF IsSome(@)
        THEN Some(DecDiv(Unwrap(@) + input * (self.period - 1), Dec(self.period)))
        ELSE None]

\* The last branch of next: Wilder's recurrence on the running value.
RMA_smooth(self, input) ==
    [self EXCEPT !.opt_current =
        IF IsSome(@)
        THEN Some(DecDiv(Unwrap(@) * (self.period - 1) + input, Dec(self.period)))
        ELSE None]

\* Mutant of RMA_step: once seeded, the smoother starts its warm-up again.
RMA_step_restarts(self, input) ==
    IF self.no_invokes <= self.period - 1
    THEN RMA_warm_up(self, SMA_next(self.sma, input))
    ELSE [self EXCEPT !.opt_current = None, !.no_invokes = 0]

RMA_step(self, input) ==
    IF self.no_invokes <= self.period - 1
    THEN RMA_warm_up(self, SMA_next(self.sma, input))
    ELSE RMA_smooth(self, input)

\* The state and what next returns from it: self.opt_current.
RMA_returns(next) == [self |-> next, out |-> next.opt_current]

RMA_next(self, input) == RMA_returns(RMA_step(self, input))

RMA_reset(self) ==
    [self EXCEPT !.opt_current = None,
                 !.no_invokes  = 0,
                 !.sma         = SMA_new(self.period).val]

\* ------------------------------------------------------------------------
\* Bars (ta::DataItem).  Only high, low and close are read by the indicators
\* modelled here; open and volume are never read and are left out.  A bar
\* is valid as the DataItem builder requires: 0 <= low <= close <= high.
\* Prices are f64 values with at most two fraction digits, which
\* Decimal::from_f64 converts to the Decimal of the same value.
\* ------------------------------------------------------------------------
Bar(h, l, c) == [high |-> h, low |-> l, close |-> c]

from_f64(x) == x

Max(a, b) == IF a >= b THEN a ELSE b

\* ------------------------------------------------------------------------
\* TrueRange (module true_range)
\* ------------------------------------------------------------------------
TR_new == [prev_close |-> None]

TR_next(self, bar) ==
    LET dist ==
            IF IsSome(self.prev_close)
            THEN LET pc == Unwrap(self.prev_close)
                 IN  Max(Max(bar.high - bar.low, Abs(bar.high - pc)),
                         Abs(bar.low - pc))
            ELSE bar.high - bar.low
    IN  [self |-> [prev_close |-> Some(bar.close)], out |-> dist]

TR_reset(self) == [prev_close |-> None]

\* ------------------------------------------------------------------------
\* AverageTrueRange
\* ------------------------------------------------------------------------
ATR_new(period) ==
    LET rma == RMA_new(period)
    IN  IF rma.tag = "Err"
        THEN rma
        ELSE Ok([true_range |-> TR_new, rma |-> rma.val])

\* next, once the true range (tr) of the bar is known
ATR_smooth(tr, r) ==
    [self |-> [true_range |-> tr.self, rma |-> r.self], out |-> r.out]

ATR_of_tr(self, tr) == ATR_smooth(tr, RMA_next(self.rma, tr.out))

\* Mutant of ATR_next: the bar's own range high - low is smoothed, the
\* previous close is ignored.
ATR_next_high_low(self, input) ==
    ATR_of_tr(self, [self |-> TR_next(self.true_range, input).self,
                     out  |-> input.high - input.low])

ATR_next(self, input) == ATR_of_tr(self, TR_next(self.true_range, input))

ATR_reset(self) ==
    [true_range |-> TR_reset(self.true_range), rma |-> RMA_reset(self.rma)]

\* ------------------------------------------------------------------------
\* DirectionalMovementIndex
\* ------------------------------------------------------------------------
ADX(adx, plus, minus) ==
    [adx_opt |-> adx, di_plus_opt |-> plus, di_minus_opt |-> minus]

empty_di == Ok(Bar(Dec(0), Dec(0), Dec(0)))

\* Mutant of DMI_new: the ATR sub-component is given twice the period.
DMI_new_atr_doubled(period) ==
    IF period = 0
    THEN Err("InvalidParameter")
    ELSE LET dmi_plus  == RMA_new(period)
             dmi_minus == RMA_new(period)
             adx       == RMA_new(period)
             atr       == ATR_new(2 * period)
             di        == empty_di
         IN  IF dmi_plus.tag = "Err" THEN dmi_plus
             ELSE IF dmi_minus.tag = "Err" THEN dmi_minus
             ELSE IF adx.tag = "Err" THEN adx
             ELSE IF atr.tag = "Err" THEN atr
             ELSE IF di.tag = "Err" THEN di
             ELSE Ok([period     |-> period,
                      dmi_plus   |-> dmi_plus.val,
                      dmi_minus  |-> dmi_minus.val,
                      adx        |-> adx.val,
                      atr        |-> atr.val,
                      current_di |-> di.val,
                      is_new     |-> TRUE])

DMI_new(period) ==
    IF period = 0
    THEN Err("InvalidParameter")
    ELSE LET dmi_plus  == RMA_new(period)
             dmi_minus == RMA_new(period)
             adx       == RMA_new(period)
             atr       == ATR_new(period)
             di        == empty_di
         IN  IF dmi_plus.tag = "Err" THEN dmi_plus
             ELSE IF dmi_minus.tag = "Err" THEN dmi_minus
             ELSE IF adx.tag = "Err" THEN adx
             ELSE IF atr.tag = "Err" THEN atr
             ELSE IF di.tag = "Err" THEN di
             ELSE Ok([period     |-> period,
                      dmi_plus   |-> dmi_plus.val,
                      dmi_minus  |-> dmi_minus.val,
                      adx        |-> adx.val,
                      atr        |-> atr.val,
                      current_di |-> di.val,
                      is_new     |-> TRUE])

\* Mutant of DirectionalMovement: a tie goes to the up move.
DirectionalMovement_tie_up(data_item, prev_low, prev_high) ==
    LET up_move   == from_f64(data_item.high) - prev_high
        down_move == prev_low - from_f64(data_item.low)
    IN  IF up_move >= down_move /\ up_move > Dec(0)
        THEN <<up_move, Dec(0)>>
        ELSE IF down_move > up_move /\ down_move > Dec(0)
        THEN <<Dec(0), down_move>>
        ELSE <<Dec(0), Dec(0)>>

\* The directional movement fed to the +DM and -DM smoothers.
DirectionalMovement(data_item, prev_low, prev_high) ==
    LET up_move   == from_f64(data_item.high) - prev_high
        down_move == prev_low - from_f64(data_item.low)
    IN  IF up_move > down_move /\ up_move > Dec(0)
        THEN <<up_move, Dec(0)>>
        ELSE IF down_move > up_move /\ down_move > Dec(0)
        THEN <<Dec(0), down_move>>
        ELSE <<Dec(0), Dec(0)>>

\* What get_adx_indicator leaves and returns: the three smoothers, the ADX
\* record, and whether it panicked on a division by zero (the smoothers are
\* then as they were when the division was reached; nothing is returned).
AdxResult(plus, minus, adx, o, panic) ==
    [plus |-> plus, minus |-> minus, adx |-> adx, out |-> o, panic |-> panic]

AdxPanic(plus, minus, adx) ==
    AdxResult(plus, minus, adx, ADX(None, None, None), TRUE)

\* .map(|f| (f / atr_output) * dec!(100))
DI(opt, atr_output) ==
    IF IsSome(opt)
    THEN Some(DecMul(DecDiv(Unwrap(opt), atr_output), Dec(100)))
    ELSE None

DIPanics(opt, atr_output) == IsSome(opt) /\ DivPanics(Unwrap(opt), atr_output)

\* Mutant of adx_smoothed: the percentage is applied twice.
adx_smoothed_percent_twice(plus, minus, a, di_plus_opt, di_minus_opt) ==
    AdxResult(plus, minus, a.self,
              ADX(IF IsSome(a.out)
                  THEN Some(DecMul(DecMul(Unwrap(a.out), Dec(100)), Dec(100)))
                  ELSE None,
                  di_plus_opt, di_minus_opt),
              FALSE)

\* .map(|adx| adx * dec!(100)) on what the ADX smoother (a) returned
adx_smoothed(plus, minus, a, di_plus_opt, di_minus_opt) ==
    AdxResult(plus, minus, a.self,
              ADX(IF IsSome(a.out) THEN Some(DecMul(Unwrap(a.out), Dec(100))) ELSE None,
                  di_plus_opt, di_minus_opt),
              FALSE)

\* Mutant of adx_of_di: the absolute value of DX is not taken.
adx_of_di_signed(plus, minus, ema_di_adx, di_plus_opt, di_minus_opt) ==
    IF IsSome(di_plus_opt) /\ IsSome(di_minus_opt)
    THEN IF DivPanics(Unwrap(di_plus_opt) - Unwrap(di_minus_opt),
                      Unwrap(di_plus_opt) + Unwrap(di_minus_opt))
         THEN AdxPanic(plus, minus, ema_di_adx)
         ELSE adx_smoothed(plus, minus,
                  RMA_next(ema_di_adx,
                           DecDiv(Unwrap(di_plus_opt) - Unwrap(di_minus_opt),
                                  Unwrap(di_plus_opt) + Unwrap(di_minus_opt))),
                  di_plus_opt, di_minus_opt)
    ELSE AdxResult(plus, minus, ema_di_adx, ADX(None, di_plus_opt, di_minus_opt), FALSE)

\* adx_temp_opt and adx_opt, from the two directional indicators
adx_of_di(plus, minus, ema_di_adx, di_plus_opt, di_minus_opt) ==
    IF IsSome(di_plus_opt) /\ IsSome(di_minus_opt)
    THEN IF DivPanics(Unwrap(di_plus_opt) - Unwrap(di_minus_opt),
                      Unwrap(di_plus_opt) + Unwrap(di_minus_opt))
         THEN AdxPanic(plus, minus, ema_di_adx)
         ELSE adx_smoothed(plus, minus,
                  RMA_next(ema_di_adx,
                           Abs(DecDiv(Unwrap(di_plus_opt) - Unwrap(di_minus_opt),
                                      Unwrap(di_plus_opt) + Unwrap(di_minus_opt)))),
                  di_plus_opt, di_minus_opt)
    ELSE AdxResult(plus, minus, ema_di_adx, ADX(None, di_plus_opt, di_minus_opt), FALSE)

\* di_minus_opt, once the -DM smoother (m) has taken dm_minus
di_minus_of(atr_output, p, m, ema_di_adx) ==
    IF DIPanics(m.out, atr_output)
    THEN AdxPanic(p.self, m.self, ema_di_adx)
    ELSE adx_of_di(p.self, m.self, ema_di_adx,
                   DI(p.out, atr_output), DI(m.out, atr_output))

\* di_plus_opt, once the +DM smoother (p) has taken dm_plus
di_plus_of(atr_output, p, ema_di_minus, dm_minus, ema_di_adx) ==
    IF DIPanics(p.out, atr_output)
    THEN AdxPanic(p.self, ema_di_minus, ema_di_adx)
    ELSE di_minus_of(atr_output, p, RMA_next(ema_di_minus, dm_minus), ema_di_adx)

atr_unwrap_or(atr_opt) == IF IsSome(atr_opt) THEN Unwrap(atr_opt) ELSE Dec(1)

\* Mutant of get_adx_indicator: the first-observation flag is not looked at.
get_adx_indicator_no_flag(data_item, atr_opt, prev_low, prev_high, ema_di_plus, ema_di_minus, ema_di_adx, is_new) ==
    di_plus_of(atr_unwrap_or(atr_opt),
               RMA_next(ema_di_plus,
                        DirectionalMovement(data_item, prev_low, prev_high)[1]),
               ema_di_minus,
               DirectionalMovement(data_item, prev_low, prev_high)[2],
               ema_di_adx)

get_adx_indicator(data_item, atr_opt, prev_low, prev_high, ema_di_plus, ema_di_minus, ema_di_adx, is_new) ==
    IF is_new
    THEN AdxResult(ema_di_plus, ema_di_minus, ema_di_adx, ADX(None, None, None), FALSE)
    ELSE di_plus_of(atr_unwrap_or(atr_opt),
                    RMA_next(ema_di_plus,
                             DirectionalMovement(data_item, prev_low, prev_high)[1]),
                    ema_di_minus,
                    DirectionalMovement(data_item, prev_low, prev_high)[2],
                    ema_di_adx)

\* Mutant of DMI_after: the first-observation flag is never cleared.
DMI_after_keeps_flag(self, di, atr, g) ==
    IF g.panic
    THEN [self  |-> [self EXCEPT !.atr = atr, !.dmi_plus = g.plus,
                                 !.dmi_minus = g.minus, !.adx = g.adx],
          out   |-> g.out,
          panic |-> TRUE]
    ELSE [self  |-> [self EXCEPT !.atr = atr, !.dmi_plus = g.plus,
                                 !.dmi_minus = g.minus, !.adx = g.adx,
                                 !.current_di = di],
          out   |-> g.out,
          panic |-> FALSE]

\* next, after get_adx_indicator returned g (or panicked): the flag is
\* cleared and the bar is kept as current_di.
DMI_after(self, di, atr, g) ==
    IF g.panic
    THEN [self  |-> [self EXCEPT !.atr = atr, !.dmi_plus = g.plus,
                                 !.dmi_minus = g.minus, !.adx = g.adx],
          out   |-> g.out,
          panic |-> TRUE]
    ELSE [self  |-> [self EXCEPT !.atr = atr, !.dmi_plus = g.plus,
                                 !.dmi_minus = g.minus, !.adx = g.adx,
                                 !.is_new = FALSE, !.current_di = di],
          out   |-> g.out,
          panic |-> FALSE]

\* Mutant of DMI_with_atr: the ATR output of the call before is passed on.
DMI_with_atr_stale(self, di, atr) ==
    DMI_after(self, di, atr.self,
              get_adx_indicator(di, self.atr.rma.opt_current,
                                from_f64(self.current_di.low),
                                from_f64(self.current_di.high),
                                self.dmi_plus, self.dmi_minus, self.adx,
                                self.is_new))

\* next, once the ATR sub-component (atr) has taken the bar
DMI_with_atr(self, di, atr) ==
    DMI_after(self, di, atr.self,
              get_adx_indicator(di, atr.out,
                                from_f64(self.current_di.low),
                                from_f64(self.current_di.high),
                                self.dmi_plus, self.dmi_minus, self.adx,
                                self.is_new))

DMI_next(self, di) == DMI_with_atr(self, di, ATR_next(self.atr, di))

DMI_reset(self) ==
    [self EXCEPT !.adx       = RMA_reset(@),
                 !.dmi_plus  = RMA_reset(@),
                 !.dmi_minus = RMA_reset(@),
                 !.is_new    = TRUE]

\* ------------------------------------------------------------------------
\* PivotPoints (pivot/pivot_points.rs).  A VecDeque is a sequence, front
\* first; b[i] of the code is b[i + 1] here.
\* ------------------------------------------------------------------------
Pivot(price, pivot_type) == [price |-> price, pivot_type |-> pivot_type]

default_bar == Bar(Dec(0), Dec(0), Dec(0))

\* VecDeque::pop_front: nothing happens on an empty deque
pop_front(q) == IF q = <<>> THEN q ELSE Tail(q)

push_back(q, x) == Append(q, x)

\* Mutant of PP_new: construction fails when either parameter is 0.
PP_new_either_zero(lookback_period, num_pivots) ==
    IF lookback_period = 0 \/ num_pivots = 0
    THEN Err("InvalidParameter")
    ELSE Ok([lookback_period |-> lookback_period,
             num_pivots      |-> num_pivots,
             pivots |-> [i \in 1..num_pivots |-> Pivot(Dec(0), "Unknown")],
             bars   |-> [i \in 1..(lookback_period * 2 + 1) |-> default_bar]])

PP_new(lookback_period, num_pivots) ==
    IF lookback_period = 0 /\ num_pivots = 0
    THEN Err("InvalidParameter")
    ELSE Ok([lookback_period |-> lookback_period,
             num_pivots      |-> num_pivots,
             pivots |-> [i \in 1..num_pivots |-> Pivot(Dec(0), "Unknown")],
             bars   |-> [i \in 1..(lookback_period * 2 + 1) |-> default_bar]])

\* Mutant of find_pivot_high: a high equal to its neighbour passes on the
\* side after the center.
find_pivot_high_ties_after(period, b) ==
    IF \E i \in 0..(2 * period - 1) :
          \/ i >= period /\ b[i + 1].high < b[i + 2].high
          \/ i < period  /\ b[i + 1].high >= b[i + 2].high
    THEN None
    ELSE Some(b[period + 1].high)

\* The loop returns None at the first adjacent pair out of order.
find_pivot_high(period, b) ==
    IF \E i \in 0..(2 * period - 1) :
          \/ i >= period /\ b[i + 1].high <= b[i + 2].high
          \/ i < period  /\ b[i + 1].high >= b[i + 2].high
    THEN None
    ELSE Some(b[period + 1].high)

\* Mutant of find_pivot_low: equal lows pass on both sides of the center.
find_pivot_low_ties(period, b) ==
    IF \E i \in 0..(2 * period - 1) :
          \/ i >= period /\ b[i + 1].low > b[i + 2].low
          \/ i < period  /\ b[i + 1].low < b[i + 2].low
    THEN None
    ELSE Some(b[period + 1].low)

find_pivot_low(period, b) ==
    IF \E i \in 0..(2 * period - 1) :
          \/ i >= period /\ b[i + 1].low >= b[i + 2].low
          \/ i < period  /\ b[i + 1].low <= b[i + 2].low
    THEN None
    ELSE Some(b[period + 1].low)

\* Mutant of PP_shift: the oldest bar is not evicted.
PP_shift_keeps_oldest(self, input) ==
    [self EXCEPT !.bars = push_back(@, input)]

\* self.bars.pop_front(); self.bars.push_back(input.clone())
PP_shift(self, input) ==
    [self EXCEPT !.bars = push_back(pop_front(@), input)]

\* self.pivots.pop_front(); self.pivots.push_back(Pivot{..})
PP_record(self, found, pivot_type) ==
    IF IsSome(found)
    THEN [self EXCEPT !.pivots =
              push_back(pop_front(@), Pivot(from_f64(Unwrap(found)), pivot_type))]
    ELSE self

PP_record_high(self) ==
    PP_record(self, find_pivot_high(self.lookback_period, self.bars), "High")

PP_record_low(self) ==
    PP_record(self, find_pivot_low(self.lookback_period, self.bars), "Low")

\* self.pivots.clone()
PP_returns(self) == [self |-> self, out |-> self.pivots]

\* Mutant of PP_next: the pivot low is recorded before the pivot high.
PP_next_low_first(self, input) ==
    PP_returns(PP_record_high(PP_record_low(PP_shift(self, input))))

PP_next(self, input) ==
    PP_returns(PP_record_low(PP_record_high(PP_shift(self, input))))

\* ------------------------------------------------------------------------
\* The client program
\* ------------------------------------------------------------------------
VARIABLES
    kind,      \* the indicator type whose new() was called last, or "none"
    arg,       \* the period passed to that new()
    res,       \* what that new() returned: "Ok" or the error
    obj,       \* the indicator, once constructed
    op,        \* the last operation: "init", "new", "next", "reset", "panic"
    out,       \* what the last next() returned
    hist,      \* inputs fed by next() since new() or the last reset()
    calls,     \* number of next() calls since new()
    wasReset   \* whether reset() has been called on the indicator

vars == <<kind, arg, res, obj, op, out, hist, calls, wasReset>>

Periods == 0..MaxPeriod
Values  == {Dec(n) : n \in 0..MaxVal}
Prices  == {Dec(n) : n \in 0..MaxPrice}
Bars    == {Bar(h, l, c) : h \in Prices, l \in Prices, c \in Prices}
ValidBars == {b \in Bars : b.low <= b.close /\ b.close <= b.high}

NoObj == <<>>
NoOut == <<>>

Init ==
    /\ kind = "none"
    /\ arg = 0
    /\ res = "none"
    /\ obj = NoObj
    /\ op = "init"
    /\ out = NoOut
    /\ hist = <<>>
    /\ calls = 0
    /\ wasReset = FALSE

\* No indicator yet: none was constructed, or the last new() failed.
CanConstruct == res # "Ok"

\* new(period) of indicator type k returned r.
Constructed(k, period, r) ==
    /\ kind' = k
    /\ arg' = period
    /\ res' = IF r.tag = "Ok" THEN "Ok" ELSE r.err
    /\ obj' = IF r.tag = "Ok" THEN r.val ELSE NoObj
    /\ op' = "new"
    /\ out' = NoOut
    /\ hist' = <<>>
    /\ calls' = 0
    /\ wasReset' = FALSE

\* The indicator of type k is live and may be called again.
Live(k) == kind = k /\ res = "Ok" /\ op # "panic"

\* next(input) returned r.out and left the indicator as r.self.
Returned(input, r) ==
    /\ obj' = r.self
    /\ out' = r.out
    /\ op' = "next"
    /\ hist' = Append(hist, input)
    /\ calls' = calls + 1
    /\ UNCHANGED <<kind, arg, res, wasReset>>

\* reset() left the indicator as o.
WasReset(o) ==
    /\ obj' = o
    /\ op' = "reset"
    /\ out' = NoOut
    /\ hist' = <<>>
    /\ wasReset' = TRUE
    /\ UNCHANGED <<kind, arg, res, calls>>

NewSMA == CanConstruct /\ \E p \in Periods : Constructed("sma", p, SMA_new(p))

NextSMA ==
    /\ Live("sma") /\ calls < MaxCalls
    /\ \E x \in Values : Returned(x, SMA_next(obj, x))

ResetSMA == Live("sma") /\ WasReset(SMA_reset(obj))

NewRMA == CanConstruct /\ \E p \in Periods : Constructed("rma", p, RMA_new(p))

NextRMA ==
    /\ Live("rma") /\ calls < MaxCalls
    /\ \E x \in Values : Returned(x, RMA_next(obj, x))

ResetRMA == Live("rma") /\ WasReset(RMA_reset(obj))

NewATR == CanConstruct /\ \E p \in Periods : Constructed("atr", p, ATR_new(p))

NextATR ==
    /\ Live("atr") /\ calls < MaxCalls
    /\ \E b \in ValidBars : Returned(b, ATR_next(obj, b))

ResetATR == Live("atr") /\ WasReset(ATR_reset(obj))

NewDMI == CanConstruct /\ \E p \in Periods : Constructed("dmi", p, DMI_new(p))

\* next(di) returned r.out, or panicked on a division by zero: the call
\* then returns nothing and the program ends.
ReturnedOrPanicked(input, r) ==
    /\ obj' = r.self
    /\ op' = IF r.panic THEN "panic" ELSE "next"
    /\ out' = IF r.panic THEN NoOut ELSE r.out
    /\ hist' = Append(hist, input)
    /\ calls' = calls + 1
    /\ UNCHANGED <<kind, arg, res, wasReset>>

NextDMI ==
    /\ Live("dmi") /\ calls < MaxCalls
    /\ \E b \in ValidBars : ReturnedOrPanicked(b, DMI_next(obj, b))

ResetDMI == Live("dmi") /\ WasReset(DMI_reset(obj))

Next ==
    \/ NewSMA \/ NextSMA \/ ResetSMA
    \/ NewRMA \/ NextRMA \/ ResetRMA
    \/ NewATR \/ NextATR \/ ResetATR
    \/ NewDMI \/ NextDMI \/ ResetDMI

Spec == Init /\ [][Next]_vars

\* The programs that construct a SimpleMovingAverage or a
\* RollingMovingAverage: the indicators fed scalar samples.
ScalarNext ==
    \/ NewSMA \/ NextSMA \/ ResetSMA
    \/ NewRMA \/ NextRMA \/ ResetRMA

ScalarSpec == Init /\ [][ScalarNext]_vars

\* The programs that construct a DirectionalMovementIndex and feed it a few
\* bars of a wider price range, 0 .. MaxPrice + 1: wide enough for a bar
\* that moves up and down by the same positive amount against the bar
\* before it.
WidePrices == {Dec(n) : n \in 0..(MaxPrice + 1)}

WideBars ==
    {b \in {Bar(h, l, c) : h \in WidePrices, l \in WidePrices, c \in WidePrices} :
        b.low <= b.close /\ b.close <= b.high}

NextDMIWide ==
    /\ Live("dmi") /\ calls < MaxWideCalls
    /\ \E b \in WideBars : ReturnedOrPanicked(b, DMI_next(obj, b))

WideNext == NewDMI \/ NextDMIWide \/ ResetDMI

WideSpec == Init /\ [][WideNext]_vars

\* The program of tests::test_next of RollingMovingAverage, for the period
\* of the test (14) and every shorter one: the first 13 samples of the test
\* are fed in their order.
TestSeq ==
    << Dec(100), Dec(102), Dec(101), Dec(103), Dec(102), Dec(104), Dec(105),
       Dec(106), Dec(108), Dec(107), Dec(109), Dec(110), Dec(111) >>

TestPeriods == 1..(Len(TestSeq) + 1)

NewTestRMA ==
    /\ op = "init"
    /\ \E p \in TestPeriods : Constructed("rma", p, RMA_new(p))

NextTestRMA ==
    /\ Live("rma") /\ calls < Len(TestSeq)
    /\ Returned(TestSeq[calls + 1], RMA_next(obj, TestSeq[calls + 1]))

TestNext == NewTestRMA \/ NextTestRMA

TestSpec == Init /\ [][TestNext]_vars

\* The programs that construct a PivotPoints.  PivotPoints reads the high
\* and the low of a bar only; the bars fed are the single-price bars of the
\* tests and the bar that spans the whole price range.  For this indicator
\* arg is the pair <<lookback_period, num_pivots>>.
Lookbacks == 0..MaxLookback

NumPivots == 0..MaxPivots

PivotPrices == {Dec(n) : n \in 0..MaxPivotPrice}

PivotBars ==
    {Bar(v, v, v) : v \in PivotPrices} \cup {Bar(Dec(MaxPivotPrice), Dec(0), Dec(0))}

NewPivot ==
    /\ CanConstruct
    /\ \E l \in Lookbacks, n \in NumPivots :
          Constructed("pivot", <<l, n>>, PP_new(l, n))

NextPivot ==
    /\ Live("pivot") /\ calls < MaxPivotCalls
    /\ \E b \in PivotBars : Returned(b, PP_next(obj, b))

PivotNext == NewPivot \/ NextPivot

PivotSpec == Init /\ [][PivotNext]_vars

\* The example of the AverageTrueRange documentation: AverageTrueRange::new(3)
\* fed bars out of the four of the example, (high, low, close) each.
DocSeq ==
    << Bar(1000, 900, 950), Bar(1040, 980, 1020),
       Bar(1070, 940, 970), Bar(920, 810, 840) >>

DocBars == {DocSeq[i] : i \in 1..Len(DocSeq)}

\* the ATR values of the example, in units of 1/10000
DocAtr == <<10000, 9500, 11250, 13625>>

DocInit ==
    /\ kind = "atr"
    /\ arg = Len(DocAtr) - 1
    /\ res = "Ok"
    /\ obj = ATR_new(Len(DocAtr) - 1).val
    /\ op = "new"
    /\ out = NoOut
    /\ hist = <<>>
    /\ calls = 0
    /\ wasReset = FALSE

DocNextATR ==
    /\ Live("atr") /\ calls < Len(DocSeq)
    /\ \E b \in DocBars : Returned(b, ATR_next(obj, b))

DocSpec == DocInit /\ [][DocNextATR]_vars

\* ------------------------------------------------------------------------
\* Reference definitions used by the properties
\* ------------------------------------------------------------------------
Min(a, b) == IF a <= b THEN a ELSE b

Last(seq) == seq[Len(seq)]

RECURSIVE SumSeq(_)
SumSeq(seq) == IF seq = <<>> THEN 0 ELSE Head(seq) + SumSeq(Tail(seq))

\* the last k elements of seq
LastK(seq, k) == SubSeq(seq, Len(seq) - k + 1, Len(seq))

\* the arithmetic mean of a non-empty sequence of Decimals
Mean(seq) == DecDiv(SumSeq(seq), Dec(Len(seq)))

\* A freshly constructed indicator of the given period fed the inputs xs,
\* call by call: its state and what the last call returned.
RECURSIVE SMA_fresh(_, _)
SMA_fresh(period, xs) ==
    IF xs = <<>>
    THEN [self |-> SMA_new(period).val, out |-> NoOut]
    ELSE SMA_next(SMA_fresh(period, SubSeq(xs, 1, Len(xs) - 1)).self, Last(xs))

RECURSIVE RMA_fresh(_, _)
RMA_fresh(period, xs) ==
    IF xs = <<>>
    THEN [self |-> RMA_new(period).val, out |-> NoOut]
    ELSE RMA_next(RMA_fresh(period, SubSeq(xs, 1, Len(xs) - 1)).self, Last(xs))

\* ------------------------------------------------------------------------
\* Properties
\* ------------------------------------------------------------------------

\* C1: the n-th next of a freshly constructed SimpleMovingAverage(P) returns
\* the sum of the last min(n, P) inputs divided by min(n, P); the first call
\* returns its input.
C1_SmaMeanOfSeen ==
    (kind = "sma" /\ res = "Ok" /\ op = "next" /\ ~wasReset) =>
        /\ out = Mean(LastK(hist, Min(Len(hist), arg)))
        /\ (Len(hist) = 1 => out = hist[1])

\* C1 witness: period 2, third call: the first input has been evicted and
\* the window was never padded with zeros.
C1_Witness ==
    /\ kind = "sma" /\ res = "Ok" /\ op = "next" /\ ~wasReset
    /\ arg = 2
    /\ hist = <<Dec(2), Dec(0), Dec(1)>>
    /\ out = 50

\* C2: a fresh RollingMovingAverage(P) returns None on calls 1..P-1 and on
\* call P Some(mean of the first P inputs); with P = 1 the first call is
\* already Some(input).
C2_RmaWarmUp ==
    (kind = "rma" /\ res = "Ok" /\ op = "next" /\ ~wasReset) =>
        /\ (Len(hist) < arg => out = None)
        /\ (Len(hist) = arg => out = Some(Mean(hist)))
        /\ (Len(hist) = 1 /\ arg = 1 => out = Some(hist[1]))

\* C2 witness: period 3, the third call returns the mean of 2, 0, 2.
C2_Witness ==
    /\ kind = "rma" /\ res = "Ok" /\ op = "next" /\ ~wasReset
    /\ arg = 3
    /\ hist = <<Dec(2), Dec(0), Dec(2)>>
    /\ out = Some(133)

\* C3: when the previous next of a RollingMovingAverage(P) returned Some(c)
\* and no reset came in between, next(x) returns Some((c * (P-1) + x) / P).
C3_RmaWilderStep ==
    [][(kind = "rma" /\ op = "next" /\ IsSome(out) /\ op' = "next") =>
          out' = Some(DecDiv(Unwrap(out) * (arg - 1) + Last(hist'), Dec(arg)))]_vars

\* C3 witness: period 3 seeded with 2.00, then next(0) returns 1.33.
C3_Witness ==
    /\ kind = "rma" /\ res = "Ok" /\ op = "next"
    /\ arg = 3
    /\ hist = <<Dec(2), Dec(2), Dec(2), Dec(0)>>
    /\ out = Some(133)

\* C4: for SMA, RMA, ATR and DMI, new(0) returns InvalidParameter and new(p)
\* succeeds for every p >= 1; next and reset return no error.
C4_NewValidatesPeriod ==
    (kind \in {"sma", "rma", "atr", "dmi"}) =>
        /\ (arg = 0 => res = "InvalidParameter")
        /\ (arg >= 1 => res = "Ok")
        /\ (res = "InvalidParameter" => op = "new" /\ obj = NoObj)

\* C4 witness: DirectionalMovementIndex::new(0) returned the error.
C4_Witness ==
    kind = "dmi" /\ arg = 0 /\ res = "InvalidParameter" /\ op = "new"

\* C5: after reset(), whatever was fed before, a SimpleMovingAverage or
\* RollingMovingAverage is in the state of a fresh instance of the same
\* period and returns, call by call, what the fresh instance returns.
C5_ResetReplaysFresh ==
    /\ (kind = "sma" /\ res = "Ok" /\ wasReset) =>
          /\ obj = SMA_fresh(arg, hist).self
          /\ (op = "next" => out = SMA_fresh(arg, hist).out)
    /\ (kind = "rma" /\ res = "Ok" /\ wasReset) =>
          /\ obj = RMA_fresh(arg, hist).self
          /\ (op = "next" => out = RMA_fresh(arg, hist).out)

\* C5 witness: an SMA(3) fed two samples, reset, and fed two more.
C5_Witness ==
    /\ kind = "sma" /\ res = "Ok" /\ wasReset /\ op = "next"
    /\ arg = 3 /\ calls = 4
    /\ hist = <<Dec(1), Dec(2)>>
    /\ out = 150

\* A fresh DirectionalMovementIndex of the given period fed the bars xs: its
\* state, what the last call returned, and whether a call panicked (the
\* run ends there).
DMI_fresh_step(prev, x) == IF prev.panic THEN prev ELSE DMI_next(prev.self, x)

RECURSIVE DMI_fresh(_, _)
DMI_fresh(period, xs) ==
    IF xs = <<>>
    THEN [self |-> DMI_new(period).val, out |-> NoOut, panic |-> FALSE]
    ELSE DMI_fresh_step(DMI_fresh(period, SubSeq(xs, 1, Len(xs) - 1)), Last(xs))

\* C6: after reset(), whatever was fed before, a DirectionalMovementIndex
\* returns, call by call, the {adx, di_plus, di_minus} records of a fresh
\* instance of the same period fed the same bars.
C6_DmiResetReplaysFresh ==
    (kind = "dmi" /\ res = "Ok" /\ wasReset /\ op = "next") =>
        /\ ~DMI_fresh(arg, hist).panic
        /\ out = DMI_fresh(arg, hist).out

\* C7: without a reset in between, once next of an RMA or ATR, or a field of
\* the record returned by next of a DMI, was Some, the next call that
\* returns also returns Some there.  (A call that panics returns nothing.)
C7_AvailableStays ==
    [][(op = "next" /\ op' = "next") =>
          /\ (kind \in {"rma", "atr"} => (IsSome(out) => IsSome(out')))
          /\ (kind = "dmi" =>
                /\ (IsSome(out.adx_opt) => IsSome(out'.adx_opt))
                /\ (IsSome(out.di_plus_opt) => IsSome(out'.di_plus_opt))
                /\ (IsSome(out.di_minus_opt) => IsSome(out'.di_minus_opt)))]_vars

\* C7 witness: a DMI(1) never reset whose third call returns adx, di_plus
\* and di_minus all Some, as its second call did.
C7_Witness ==
    /\ kind = "dmi" /\ res = "Ok" /\ op = "next" /\ ~wasReset
    /\ arg = 1 /\ Len(hist) = 3
    /\ IsSome(out.adx_opt) /\ IsSome(out.di_plus_opt) /\ IsSome(out.di_minus_opt)
    /\ IsSome(DMI_fresh(arg, SubSeq(hist, 1, 2)).out.adx_opt)

\* The true range of each bar of a sequence: high - low for the first, the
\* largest of high - low, |high - previous close| and |low - previous close|
\* for the others.
TrueRanges(bars) ==
    [i \in 1..Len(bars) |->
        IF i = 1
        THEN bars[i].high - bars[i].low
        ELSE Max(Max(bars[i].high - bars[i].low,
                     Abs(bars[i].high - bars[i - 1].close)),
                 Abs(bars[i].low - bars[i - 1].close))]

\* Wilder's average of xs with period P: pending for fewer than P values,
\* the mean of the first P, then c' = (c * (P-1) + x) / P.
RECURSIVE Wilder(_, _)
Wilder(P, xs) ==
    IF Len(xs) < P THEN None
    ELSE IF Len(xs) = P THEN Some(Mean(xs))
    ELSE Some(DecDiv(Unwrap(Wilder(P, SubSeq(xs, 1, Len(xs) - 1))) * (P - 1) + Last(xs),
                     Dec(P)))

C9_DocExample ==
    (kind = "atr" /\ arg = 3 /\ op = "next" /\ ~wasReset
        /\ hist = SubSeq(DocSeq, 1, Len(hist))) =>
        /\ IsSome(out)
        /\ 2 * Abs(Unwrap(out) * (10000 \div Scale) - DocAtr[Len(hist)])
               <= 10000 \div Scale

\* C10: the first next of a DirectionalMovementIndex after new() or after
\* reset() returns {None, None, None} whatever the bar and the period,
\* clears is_new and keeps the bar as current_di for the following call.
C10_FirstCallAllPending ==
    [][(kind = "dmi" /\ res = "Ok" /\ op \in {"new", "reset"}
           /\ op' \in {"next", "panic"}) =>
          /\ op' = "next"
          /\ out' = ADX(None, None, None)
          /\ ~obj'.is_new
          /\ obj'.current_di = Last(hist')]_vars

\* C10 witness: a DMI(1) fed one bar, reset, and fed a bar moving up: the
\* call returns all None although every smoother has period 1.
C10_Witness ==
    /\ kind = "dmi" /\ res = "Ok" /\ op = "next" /\ wasReset
    /\ arg = 1 /\ calls = 2
    /\ hist = <<Bar(Dec(1), Dec(0), Dec(0))>>
    /\ out = ADX(None, None, None)
    /\ ~obj.is_new
    /\ obj.current_di = Bar(Dec(1), Dec(0), Dec(0))

\* ------------------------------------------------------------------------
\* C11: on every DirectionalMovementIndex.next call after the first (since
\* new or reset), with up_move and down_move taken against the bar fed by
\* the call before, the +DM smoother is fed up_move if up_move > down_move
\* and up_move > 0 and is fed 0 otherwise, the -DM smoother is fed down_move
\* if down_move > up_move and down_move > 0 and is fed 0 otherwise (a tie
\* feeds 0 to both); both values are >= 0 and never both non-zero.  A call
\* that panics on the +DI division has fed the +DM smoother only.
\* ------------------------------------------------------------------------
UpMove(prev, bar) == bar.high - prev.high

DownMove(prev, bar) == prev.low - bar.low

PlusDM(prev, bar) ==
    IF UpMove(prev, bar) > DownMove(prev, bar) /\ UpMove(prev, bar) > 0
    THEN UpMove(prev, bar) ELSE 0

MinusDM(prev, bar) ==
    IF DownMove(prev, bar) > UpMove(prev, bar) /\ DownMove(prev, bar) > 0
    THEN DownMove(prev, bar) ELSE 0

C11_DirectionalMovementFed ==
    [][(kind = "dmi" /\ op' \in {"next", "panic"} /\ calls' = calls + 1
            /\ hist # <<>>) =>
        LET prev == Last(hist)
            bar  == Last(hist')
        IN  /\ obj'.dmi_plus = RMA_step(obj.dmi_plus, PlusDM(prev, bar))
            /\ (op' = "next" =>
                  obj'.dmi_minus = RMA_step(obj.dmi_minus, MinusDM(prev, bar)))
            /\ PlusDM(prev, bar) >= 0 /\ MinusDM(prev, bar) >= 0
            /\ (PlusDM(prev, bar) = 0 \/ MinusDM(prev, bar) = 0)
    ]_vars

\* C11 witness: a DMI(2) fed the bar (1, 1, 1) and then (2, 0, 1), which
\* moves up by 1 and down by 1: both smoothers have taken one sample, 0.
C11_Witness ==
    /\ kind = "dmi" /\ res = "Ok" /\ arg = 2 /\ op = "next"
    /\ hist = <<Bar(Dec(1), Dec(1), Dec(1)), Bar(Dec(2), Dec(0), Dec(1))>>
    /\ UpMove(hist[1], hist[2]) = DownMove(hist[1], hist[2])
    /\ UpMove(hist[1], hist[2]) > 0
    /\ obj.dmi_plus.no_invokes = 1 /\ obj.dmi_plus.sma.sum = Dec(0)
    /\ obj.dmi_minus.no_invokes = 1 /\ obj.dmi_minus.sma.sum = Dec(0)

\* ------------------------------------------------------------------------
\* C12: when a DirectionalMovementIndex.next call has +DI and -DI both
\* Available and +DI + -DI = 0, the call returns normally, with adx Pending
\* and di_plus = di_minus = Available(0).
\* The state after such a call: it was not the first call, both smoothers
\* hold a value, the ATR divisor is not zero and the two indicators sum to 0.
\* ------------------------------------------------------------------------
LastAtr == atr_unwrap_or(obj.atr.rma.opt_current)

ReachedDX ==
    /\ kind = "dmi" /\ res = "Ok" /\ op \in {"next", "panic"}
    /\ Len(hist) >= 2
    /\ IsSome(obj.dmi_plus.opt_current) /\ IsSome(obj.dmi_minus.opt_current)
    /\ LastAtr # 0

C12_ZeroDenominatorPending ==
    (/\ ReachedDX
     /\ Unwrap(DI(obj.dmi_plus.opt_current, LastAtr))
          + Unwrap(DI(obj.dmi_minus.opt_current, LastAtr)) = 0)
    => (op = "next" /\ out = ADX(None, Some(Dec(0)), Some(Dec(0))))

\* ------------------------------------------------------------------------
\* C13: every next call of DirectionalMovementIndex and AverageTrueRange on
\* valid bars returns: no call divides by zero or otherwise aborts.
\* ------------------------------------------------------------------------
C13_NextAlwaysReturns ==
    (kind \in {"dmi", "atr"} /\ res = "Ok") => op # "panic"

\* ------------------------------------------------------------------------
\* PivotPoints: reference definitions
\* ------------------------------------------------------------------------
\* A fresh PivotPoints(a[1], a[2]) fed the bars xs, call by call.  A
\* PivotPoints has no reset, so the state before the last call of a run is
\* that of the run without its last bar.
RECURSIVE PP_fresh(_, _)
PP_fresh(a, xs) ==
    IF xs = <<>>
    THEN [self |-> PP_new(a[1], a[2]).val, out |-> NoOut]
    ELSE PP_next(PP_fresh(a, SubSeq(xs, 1, Len(xs) - 1)).self, Last(xs))

PivotLive == kind = "pivot" /\ res = "Ok"

PivotCalled == PivotLive /\ op = "next"

\* the PivotPoints before the last call
PivotBefore == PP_fresh(arg, SubSeq(hist, 1, Len(hist) - 1)).self

\* xs strictly increases from its first element up to the center (index
\* lookback, counted from 0) and strictly decreases from there to its last
Peak(xs, lookback) ==
    /\ \A i \in 1..lookback : xs[i] < xs[i + 1]
    /\ \A i \in (lookback + 1)..(2 * lookback) : xs[i] > xs[i + 1]

Trough(xs, lookback) ==
    /\ \A i \in 1..lookback : xs[i] > xs[i + 1]
    /\ \A i \in (lookback + 1)..(2 * lookback) : xs[i] < xs[i + 1]

Highs(b) == [i \in 1..Len(b) |-> b[i].high]

Lows(b) == [i \in 1..Len(b) |-> b[i].low]

Center(self) == self.bars[self.lookback_period + 1]

HighRule(self) == Peak(Highs(self.bars), self.lookback_period)

LowRule(self) == Trough(Lows(self.bars), self.lookback_period)

\* the history h with its oldest entry evicted (if it has one) and p appended
Evicting(h, p) == Append(SubSeq(h, 2, Len(h)), p)

\* ------------------------------------------------------------------------
\* C14: on each PivotPoints.next call, on the shifted window, a Pivot of
\* type High with the high of the center bar is recorded if and only if the
\* highs strictly increase from index 0 to the center and strictly decrease
\* from the center to index 2*lookback; then a Pivot of type Low with the
\* low of the center bar is recorded if and only if the lows strictly
\* decrease to the center and strictly increase after it.  Nothing else is
\* recorded.
\* ------------------------------------------------------------------------
C14_PivotRecordedIffMonotone ==
    PivotCalled =>
        LET afterHigh == IF HighRule(obj)
                         THEN Evicting(PivotBefore.pivots,
                                       Pivot(Center(obj).high, "High"))
                         ELSE PivotBefore.pivots
            afterLow  == IF LowRule(obj)
                         THEN Evicting(afterHigh, Pivot(Center(obj).low, "Low"))
                         ELSE afterHigh
        IN  obj.pivots = afterLow

\* C14 witness: PivotPoints(2, 2) fed single-price bars 0, 1, 2, 1, 0: the
\* fifth call records the pivot high 2 and no pivot low.
C14_Witness ==
    /\ PivotCalled /\ arg = <<2, 2>>
    /\ hist = <<Bar(Dec(0), Dec(0), Dec(0)), Bar(Dec(1), Dec(1), Dec(1)),
                Bar(Dec(2), Dec(2), Dec(2)), Bar(Dec(1), Dec(1), Dec(1)),
                Bar(Dec(0), Dec(0), Dec(0))>>
    /\ HighRule(obj) /\ ~LowRule(obj)
    /\ out = <<Pivot(Dec(0), "Unknown"), Pivot(Dec(2), "High")>>

\* ------------------------------------------------------------------------
\* C15: for every lookback >= 1, no PivotPoints.next call among the first
\* 2*lookback calls on a fresh instance records a pivot: while the window
\* still holds a zero-valued bar of the construction, the pivot history is
\* as construction left it.
\* ------------------------------------------------------------------------
C15_NoPivotBeforeWindowFull ==
    (PivotLive /\ arg[1] >= 1 /\ calls <= 2 * arg[1]) =>
        obj.pivots = [i \in 1..arg[2] |-> Pivot(Dec(0), "Unknown")]

\* ------------------------------------------------------------------------
\* C16: for every constructed PivotPoints(lookback, num_pivots) and every
\* sequence of next calls, the pivot history and the returned output hold
\* exactly num_pivots entries and the bar window holds exactly
\* 2*lookback+1 bars.
\* ------------------------------------------------------------------------
C16_FixedCapacity ==
    PivotLive =>
        /\ Len(obj.pivots) = arg[2]
        /\ (op = "next" => Len(out) = arg[2])
        /\ Len(obj.bars) = 2 * arg[1] + 1

\* ------------------------------------------------------------------------
\* C17: PivotPoints::new(lookback, num_pivots) fails with InvalidParameter
\* exactly when both parameters are 0; on success the history holds
\* num_pivots entries Pivot{0, Unknown} and the window 2*lookback+1
\* zero-valued bars.
\* ------------------------------------------------------------------------
C17_PivotNewValidates ==
    (kind = "pivot") =>
        /\ (arg = <<0, 0>> => res = "InvalidParameter" /\ obj = NoObj)
        /\ (arg[1] > 0 \/ arg[2] > 0 => res = "Ok")
        /\ (res = "Ok" /\ op = "new" =>
              /\ Len(obj.pivots) = arg[2]
              /\ \A i \in 1..Len(obj.pivots) :
                    obj.pivots[i] = [price |-> 0, pivot_type |-> "Unknown"]
              /\ Len(obj.bars) = 2 * arg[1] + 1
              /\ \A i \in 1..Len(obj.bars) :
                    obj.bars[i] = [high |-> 0, low |-> 0, close |-> 0])

\* C17 witness: PivotPoints::new(0, 2) succeeded, with a window of one bar.
C17_Witness ==
    /\ kind = "pivot" /\ arg = <<0, 2>> /\ res = "Ok" /\ op = "new"
    /\ Len(obj.pivots) = 2 /\ Len(obj.bars) = 1

\* ------------------------------------------------------------------------
\* C18: with num_pivots >= 1, a PivotPoints.next call that detects a pivot
\* evicts the oldest history entry and appends the new Pivot{center price,
\* type} at the back: the new pivot is the last element of the output and
\* the entries that survive keep their order.  A call that detects both a
\* High and a Low evicts two entries and appends High before Low.
\* ------------------------------------------------------------------------
\* out is the history before shifted towards the front by n places
ShiftedBy(before, n) ==
    \A i \in 1..(Len(out) - n) : out[i] = before[i + n]

C18_EvictOldestAppendNewest ==
    (PivotCalled /\ arg[2] >= 1) =>
        LET before == PivotBefore.pivots
            high   == Pivot(Center(obj).high, "High")
            low    == Pivot(Center(obj).low, "Low")
        IN  /\ Len(out) = Len(before)
            /\ (HighRule(obj) /\ ~LowRule(obj) =>
                  Last(out) = high /\ ShiftedBy(before, 1))
            /\ (LowRule(obj) /\ ~HighRule(obj) =>
                  Last(out) = low /\ ShiftedBy(before, 1))
            /\ (HighRule(obj) /\ LowRule(obj) =>
                  /\ Last(out) = low
                  /\ (Len(out) >= 2 => out[Len(out) - 1] = high)
                  /\ ShiftedBy(before, 2))

\* C18 witness: PivotPoints(1, 2) fed the single-price bar 1, the bar
\* spanning 2 .. 0 and the single-price bar 1: the third call detects both
\* pivots, evicts the two initial entries and leaves High 2 before Low 0.
C18_Witness ==
    /\ PivotCalled /\ arg = <<1, 2>>
    /\ hist = <<Bar(Dec(1), Dec(1), Dec(1)), Bar(Dec(2), Dec(0), Dec(0)),
                Bar(Dec(1), Dec(1), Dec(1))>>
    /\ HighRule(obj) /\ LowRule(obj)
    /\ out = <<Pivot(Dec(2), "High"), Pivot(Dec(0), "Low")>>

\* ------------------------------------------------------------------------
\* C19: every PivotPoints.next call returns the full pivot history, oldest
\* first, and shifts the bar window by one; a call that detects neither a
\* pivot high nor a pivot low leaves the history unchanged and returns what
\* the previous call returned (the initial all-Unknown history if it is the
\* first call).
\* ------------------------------------------------------------------------
PreviousOutput ==
    IF Len(hist) = 1
    THEN [i \in 1..arg[2] |-> Pivot(Dec(0), "Unknown")]
    ELSE PP_fresh(arg, SubSeq(hist, 1, Len(hist) - 1)).out

C19_OutputIsHistory ==
    PivotCalled =>
        /\ out = obj.pivots
        /\ obj.bars = Append(Tail(PivotBefore.bars), Last(hist))
        /\ (~HighRule(obj) /\ ~LowRule(obj) =>
              /\ obj.pivots = PivotBefore.pivots
              /\ out = PreviousOutput)

\* C19 witness: PivotPoints(1, 1) fed single-price bars 1, 0, 0: the second
\* call records the pivot high 1, the third detects nothing and returns the
\* same history, on a window that has moved on.
C19_Witness ==
    /\ PivotCalled /\ arg = <<1, 1>>
    /\ hist = <<Bar(Dec(1), Dec(1), Dec(1)), Bar(Dec(0), Dec(0), Dec(0)),
                Bar(Dec(0), Dec(0), Dec(0))>>
    /\ ~HighRule(obj) /\ ~LowRule(obj)
    /\ out = <<Pivot(Dec(1), "High")>>
    /\ obj.bars # PivotBefore.bars

\* ------------------------------------------------------------------------
\* C20: the center bar of the window is recorded as a pivot high if and
\* only if its high is strictly greater than the high of every other bar
\* of the window, and as a pivot low if and only if its low is strictly
\* less than the low of every other bar of the window.
\* ------------------------------------------------------------------------
StrictMaxAtCenter(xs, lookback) ==
    \A i \in 1..Len(xs) : i # lookback + 1 => xs[lookback + 1] > xs[i]

StrictMinAtCenter(xs, lookback) ==
    \A i \in 1..Len(xs) : i # lookback + 1 => xs[lookback + 1] < xs[i]

C20_PivotIffStrictExtremum ==
    PivotCalled =>
        LET isHigh    == StrictMaxAtCenter(Highs(obj.bars), obj.lookback_period)
            isLow     == StrictMinAtCenter(Lows(obj.bars), obj.lookback_period)
            afterHigh == IF isHigh
                         THEN Evicting(PivotBefore.pivots,
                                       Pivot(Center(obj).high, "High"))
                         ELSE PivotBefore.pivots
            afterLow  == IF isLow
                         THEN Evicting(afterHigh, Pivot(Center(obj).low, "Low"))
                         ELSE afterHigh
        IN  obj.pivots = afterLow

\* ------------------------------------------------------------------------
\* C21 as stated: RollingMovingAverage::new(3) fed the 13 values 100, 102,
\* 101, 103, 102, 104, 105, 106, 108, 107, 109, 110, 111 returns Pending on
\* all 13 calls.
\* ------------------------------------------------------------------------
C21_Rma3AllPending ==
    (kind = "rma" /\ res = "Ok" /\ arg = 3 /\ op = "next") => out = None

\* C21 amended: RollingMovingAverage::new(3) fed those 13 values returns
\* Pending on calls 1 and 2 only; call 3 returns 101, the mean of 100, 102
\* and 101, and calls 4 .. 13 return Wilder's average of the values so far.
\* It is RollingMovingAverage::new(14), the instance of the test, that
\* returns Pending on all 13 calls.
C21_Rma3PendingTwice ==
    (kind = "rma" /\ res = "Ok" /\ op = "next") =>
        /\ (arg = 3 /\ calls <= 2 => out = None)
        /\ (arg = 3 /\ calls = 3 => out = Some(Dec(101)))
        /\ (arg = 3 /\ calls >= 3 => IsSome(out) /\ out = Wilder(3, hist))
        /\ (arg = Len(TestSeq) + 1 => out = None)

\* C21 witness: the RMA(3) has taken all 13 values and returned a value on
\* the last call.
C21_Witness ==
    /\ kind = "rma" /\ res = "Ok" /\ arg = 3 /\ op = "next"
    /\ hist = TestSeq
    /\ IsSome(out)

\* ------------------------------------------------------------------------
\* C22: a fresh DirectionalMovementIndex(P), on a bar sequence on which no
\* call divides by zero, returns di_plus and di_minus Pending on calls 1..P
\* and Available from call P+1 on, and adx Pending on calls 1..2P-1 and
\* Available from call 2P on; di_plus is Available iff di_minus is, and adx
\* Available implies both.  The first call advances the ATR sub-component
\* and none of the three smoothers.
\* ------------------------------------------------------------------------
FreshDmiReturned == kind = "dmi" /\ res = "Ok" /\ op = "next" /\ ~wasReset

C22_WarmUpClocks ==
    FreshDmiReturned =>
        /\ (IsSome(out.di_plus_opt) <=> calls >= arg + 1)
        /\ (IsSome(out.di_minus_opt) <=> calls >= arg + 1)
        /\ (IsSome(out.adx_opt) <=> calls >= 2 * arg)
        /\ (IsSome(out.di_plus_opt) <=> IsSome(out.di_minus_opt))
        /\ (IsSome(out.adx_opt) =>
              IsSome(out.di_plus_opt) /\ IsSome(out.di_minus_opt))
        /\ (calls = 1 =>
              /\ obj.atr.rma.no_invokes = 1
              /\ obj.dmi_plus = RMA_new(arg).val
              /\ obj.dmi_minus = RMA_new(arg).val
              /\ obj.adx = RMA_new(arg).val)

\* C22 witness: a fresh DMI(2) returns its first adx on the fourth call.
C22_Witness ==
    /\ FreshDmiReturned /\ arg = 2 /\ calls = 4
    /\ IsSome(out.adx_opt)
    /\ IsSome(out.di_plus_opt) /\ IsSome(out.di_minus_opt)

\* ------------------------------------------------------------------------
\* C23: whenever DirectionalMovementIndex.next returns di_plus (di_minus)
\* Available, its value is 100 * v / A, v the value the +DM (-DM) smoother
\* returned on that call and A the ATR sub-component's output for the same
\* bar, 1 in its place only if that output is Pending.  The code divides
\* first and multiplies by 100 afterwards: the value is (v / A) * 100, which
\* is 100 * v / A up to the rounding of the quotient.  The ATR of a fresh
\* instance has taken every bar fed, the first included.
\* ------------------------------------------------------------------------
\* (v / A) * 100 against 100 * v / A: the quotient is rounded to half a
\* unit of the last digit before it is multiplied by 100
WithinRounding(x, v, a) ==
    Abs(x - DecDiv(DecMul(Dec(100), v), a)) <= (100 \div 2) + 1

DiOf(di_opt, smoother) ==
    IsSome(di_opt) =>
        /\ IsSome(smoother.opt_current)
        /\ Unwrap(di_opt)
             = DecMul(DecDiv(Unwrap(smoother.opt_current), LastAtr), Dec(100))
        /\ WithinRounding(Unwrap(di_opt), Unwrap(smoother.opt_current), LastAtr)

C23_DiIsSmoothedDmOverAtr ==
    (kind = "dmi" /\ res = "Ok" /\ op = "next") =>
        /\ DiOf(out.di_plus_opt, obj.dmi_plus)
        /\ DiOf(out.di_minus_opt, obj.dmi_minus)
        /\ (~IsSome(obj.atr.rma.opt_current) => LastAtr = Dec(1))
        /\ (~wasReset =>
              /\ obj.atr.rma = RMA_fresh(arg, TrueRanges(hist)).self
              /\ obj.atr.true_range.prev_close = Some(Last(hist).close))

\* C23 witness: a fresh DMI(2) returns on its third call a di_plus above 0
\* computed with an Available ATR other than 1.
C23_Witness ==
    /\ FreshDmiReturned /\ arg = 2 /\ calls = 3
    /\ IsSome(out.di_plus_opt) /\ Unwrap(out.di_plus_opt) > 0
    /\ IsSome(obj.atr.rma.opt_current)
    /\ LastAtr # Dec(1)

\* ------------------------------------------------------------------------
\* C24: on every DirectionalMovementIndex.next call on which both DIs are
\* Available with a non-zero sum, DX = |di_plus - di_minus| / (di_plus +
\* di_minus) is fed once to the third smoother and adx, when Available, is
\* 100 times what that smoother returns; on a call on which a DI is Pending
\* the third smoother is not advanced and adx is Pending.
\* ------------------------------------------------------------------------
DX(di_plus, di_minus) == DecDiv(Abs(di_plus - di_minus), di_plus + di_minus)

Times100(opt) == IF IsSome(opt) THEN Some(DecMul(Dec(100), Unwrap(opt))) ELSE None

C24_DxFedToThirdSmoother ==
    [][(kind = "dmi" /\ op' = "next" /\ calls' = calls + 1) =>
        /\ (/\ IsSome(out'.di_plus_opt) /\ IsSome(out'.di_minus_opt)
             /\ Unwrap(out'.di_plus_opt) + Unwrap(out'.di_minus_opt) # 0)
            => /\ obj'.adx = RMA_step(obj.adx, DX(Unwrap(out'.di_plus_opt),
                                                   Unwrap(out'.di_minus_opt)))
               /\ out'.adx_opt = Times100(obj'.adx.opt_current)
        /\ (~IsSome(out'.di_plus_opt) \/ ~IsSome(out'.di_minus_opt))
            => /\ obj'.adx = obj.adx
               /\ out'.adx_opt = None
    ]_vars

\* C24 witness: a DMI(2) returns on its fifth call an adx above 0, 100 times
\* the value of its third smoother, with di_minus above di_plus.
C24_Witness ==
    /\ kind = "dmi" /\ res = "Ok" /\ op = "next" /\ arg = 2 /\ calls = 5
    /\ IsSome(out.adx_opt) /\ Unwrap(out.adx_opt) > 0
    /\ out.adx_opt = Times100(obj.adx.opt_current)
    /\ Unwrap(out.di_minus_opt) > Unwrap(out.di_plus_opt)

\* ------------------------------------------------------------------------
\* C25: in every state of a DirectionalMovementIndex, fresh or after any
\* interleaving of next and reset calls, a next call that returns di_plus,
\* di_minus or adx Available has an Available ATR output: the value 1 that
\* stands in for a Pending ATR is never the divisor of a returned DI.
\* ------------------------------------------------------------------------
C25_AtrAvailableWithDi ==
    (kind = "dmi" /\ res = "Ok" /\ op = "next") =>
        ((IsSome(out.di_plus_opt) \/ IsSome(out.di_minus_opt) \/ IsSome(out.adx_opt))
            => /\ IsSome(obj.atr.rma.opt_current)
               /\ LastAtr = Unwrap(obj.atr.rma.opt_current))

\* C25 witness: a DMI(3) is fed one bar and reset before its ATR has warmed
\* up; the fourth call after the reset returns the first DIs, with an ATR
\* that has taken five bars.
C25_Witness ==
    /\ kind = "dmi" /\ res = "Ok" /\ op = "next" /\ wasReset
    /\ arg = 3 /\ calls = 5 /\ Len(hist) = 4
    /\ IsSome(out.di_plus_opt) /\ IsSome(out.di_minus_opt)
    /\ IsSome(obj.atr.rma.opt_current)

\* ------------------------------------------------------------------------
\* C26: on valid bars with a strictly positive ATR output, every Available
\* di_plus and di_minus returned by DirectionalMovementIndex.next is >= 0
\* and every Available adx is between 0 and 100.
\* ------------------------------------------------------------------------
C26_OutputRanges ==
    (kind = "dmi" /\ res = "Ok" /\ op = "next" /\ LastAtr > 0) =>
        /\ (IsSome(out.di_plus_opt) => Unwrap(out.di_plus_opt) >= 0)
        /\ (IsSome(out.di_minus_opt) => Unwrap(out.di_minus_opt) >= 0)
        /\ (IsSome(out.adx_opt) =>
              Unwrap(out.adx_opt) >= 0 /\ Unwrap(out.adx_opt) <= Dec(100))

\* C26 witness: a call returns both DIs above 0 and an adx strictly between
\* 0 and 100.
C26_Witness ==
    /\ kind = "dmi" /\ res = "Ok" /\ op = "next" /\ LastAtr > 0
    /\ IsSome(out.di_plus_opt) /\ Unwrap(out.di_plus_opt) > 0
    /\ IsSome(out.di_minus_opt) /\ Unwrap(out.di_minus_opt) > 0
    /\ IsSome(out.adx_opt)
    /\ Unwrap(out.adx_opt) > 0 /\ Unwrap(out.adx_opt) < Dec(100)

\* ------------------------------------------------------------------------
\* C27: for PivotPoints with lookback >= 1, the bar tested as the window
\* center on a call is the bar fed lookback calls before (a zero-valued bar
\* of the construction on the first lookback calls), so each bar is tested
\* on exactly one call, and no two consecutive next calls both record a
\* pivot High, nor both record a pivot Low.
\* ------------------------------------------------------------------------
RecordsHigh(self) == IsSome(find_pivot_high(self.lookback_period, self.bars))

RecordsLow(self) == IsSome(find_pivot_low(self.lookback_period, self.bars))

C27_EachBarTestedOnce ==
    (PivotCalled /\ arg[1] >= 1) =>
        /\ Center(obj) = IF Len(hist) > arg[1]
                         THEN hist[Len(hist) - arg[1]]
                         ELSE Bar(Dec(0), Dec(0), Dec(0))
        /\ (Len(hist) >= 2 =>
              /\ ~(RecordsHigh(PivotBefore) /\ RecordsHigh(obj))
              /\ ~(RecordsLow(PivotBefore) /\ RecordsLow(obj)))

\* C27 witness: PivotPoints(1, 2) fed single-price bars 1, 0, 1: the second
\* call records the pivot high 1 with the first bar as center, the third
\* tests the second bar and records the pivot low 0 and no pivot high.
C27_Witness ==
    /\ PivotCalled /\ arg = <<1, 2>>
    /\ hist = <<Bar(Dec(1), Dec(1), Dec(1)), Bar(Dec(0), Dec(0), Dec(0)),
                Bar(Dec(1), Dec(1), Dec(1))>>
    /\ RecordsHigh(PivotBefore) /\ ~RecordsHigh(obj)
    /\ RecordsLow(obj) /\ ~RecordsLow(PivotBefore)
    /\ Center(obj) = hist[2]
    /\ out = <<Pivot(Dec(1), "High"), Pivot(Dec(0), "Low")>>

====
